---- MODULE Spec2Model ----
(***************************************************************************)
(* Model of the batch image processor of src/index.js: the class          *)
(* ImageBatchProcessor (constructor, getImageFiles, analyzeImage,         *)
(* processBatch, process, saveResults) and the entry point main().        *)
(*                                                                         *)
(* JavaScript runs one callback at a time; every action below is one      *)
(* callback run to its next await (or to its return).  The file system,   *)
(* the timers and the remote service are the environment: each pending    *)
(* operation completes by one action, successfully or with an error.      *)
(***************************************************************************)
EXTENDS Integers, Sequences, FiniteSets, TLC

(***************************************************************************)
(* Bounds of the model.                                                    *)
(***************************************************************************)
MaxFiles == 3
MaxConcurrency == 2
MaxDirFiles == 2
MaxFairFiles == 2
MaxRerunItems == 3
MaxNegative == 2
MaxIterations == 4

(***************************************************************************)
(* Program constants (CONFIG, src/index.js:13-44).                         *)
(***************************************************************************)
maxRetries == 3

imagesDir == "./images"

imageExtensions == {".jpg", ".jpeg", ".png", ".gif", ".webp"}

(***************************************************************************)
(* Directory entries.  A file name is a stem and an extension; the stems   *)
(* of one directory are distinct.  ExtPool is the extensions the modelled  *)
(* directories use: a recognized one written in upper case, and one that   *)
(* is not an image.                                                        *)
(***************************************************************************)
ExtPool == {".PNG", ".txt"}

\* path.extname(file)
extname(file) == file.ext

\* String.prototype.toLowerCase on the extensions of ExtPool
toLowerCase(s) ==
  CASE s = ".PNG" -> ".png"
    [] s = ".JPG" -> ".jpg"
    [] OTHER -> s

\* path.join(dir, file)
join(d, file) == [dir |-> d, base |-> file]

\* path.basename(p)
basename(p) == p.base

\* IsImageFile comparing the extension as it is written
IsImageFile_caseSensitive(file) == extname(file) \in imageExtensions

\* the filter callback of getImageFiles
IsImageFile(file) == toLowerCase(extname(file)) \in imageExtensions

\* getImageFiles, given the listing fs.readdir returned
getImageFiles(files) ==
  LET imageFiles == SelectSeq(files, IsImageFile)
  IN  [k \in 1..Len(imageFiles) |-> join(imagesDir, imageFiles[k])]

\* the directory listings of at most n files: file k has stem k
RECURSIVE ListingsOfLen(_)
ListingsOfLen(n) ==
  IF n = 0 THEN {<<>>}
  ELSE {Append(l, [stem |-> n, ext |-> e]) : l \in ListingsOfLen(n - 1), e \in ExtPool}

Listings == UNION {ListingsOfLen(n) : n \in 0..MaxFiles}

\* the states of the images directory: unreadable, or readable with a listing
Directories ==
  {[readable |-> FALSE, files |-> <<>>]} \cup {[readable |-> TRUE, files |-> l] : l \in Listings}

(***************************************************************************)
(* State.                                                                  *)
(*   config, dir      the configuration and the images directory           *)
(*   pc               where main()/process() is suspended                  *)
(*   imageFiles, i    the locals of process(): the item list, the cursor   *)
(*   totalCount, processedCount, results, errors   the processor's fields  *)
(*   task             per item, the state of its map callback              *)
(*   output           the document handed to fs.writeFile                  *)
(*   writes           the documents written to config.outputFile, in order *)
(*   summaryPrinted   printSummary() has run                               *)
(*   exitCode, fatal  the exit code and the fatal error main() printed     *)
(* History of the run, read by the properties only:                        *)
(*   dispatches       per item, how often processBatch handed it over      *)
(*   attempts         per item, how often analyzeImage was entered         *)
(*   fails            per item, how many of its attempts threw             *)
(*   called           the items for which a remote call was ever issued    *)
(*   batches          the batches handed to processBatch, in order         *)
(*   delays           how often the delay between batches was started      *)
(***************************************************************************)
VARIABLES config, dir, pc, imageFiles, i, totalCount, processedCount,
          results, errors, task, output, writes, summaryPrinted,
          exitCode, fatal, dispatches, attempts, fails, called, batches,
          delays

vars == <<config, dir, pc, imageFiles, i, totalCount, processedCount,
          results, errors, task, output, writes, summaryPrinted,
          exitCode, fatal, dispatches, attempts, fails, called, batches,
          delays>>

fields == <<totalCount, processedCount, results, errors>>
history == <<dispatches, attempts, fails, called>>
schedule == <<batches, delays>>

Items == 1..Len(imageFiles)

NoResult == [pending |-> TRUE]
NoOutput == [pending |-> TRUE]
NoError == [kind |-> "none", attempt |-> 0]

\* the Outcome analyzeImage returns on success (src/index.js:106-114)
Success(imagePath) ==
  [image |-> basename(imagePath), path |-> imagePath, success |-> TRUE]

\* the Outcome analyzeImage returns when the retries are used up (123-129)
Failure(imagePath, error) ==
  [image |-> basename(imagePath), path |-> imagePath, success |-> FALSE,
   error |-> error]

\* ShouldRetry giving up one retry early
ShouldRetry_early(retryCount) == retryCount < maxRetries - 1

\* ShouldRetry retrying once more
ShouldRetry_late(retryCount) == retryCount <= maxRetries

\* the retry condition of the catch block (src/index.js:117)
ShouldRetry(retryCount) == retryCount < maxRetries

\* Array.prototype.slice(start, end) on an array of n elements, as the set
\* of the (1-based) positions it keeps
SliceStart(n, start) == IF start < 0 THEN (IF n + start < 0 THEN 0 ELSE n + start)
                        ELSE (IF start > n THEN n ELSE start)
SliceEnd(n, end) == IF end < 0 THEN (IF n + end < 0 THEN 0 ELSE n + end)
                    ELSE (IF end > n THEN n ELSE end)
slice(n, start, end) == {k \in 1..n : SliceStart(n, start) < k /\ k <= SliceEnd(n, end)}

\* Batch with an inclusive end
Batch_inclusive(n, j) == slice(n, j, j + config.concurrency + 1)

\* the batch of the loop iteration at cursor j (src/index.js:209)
Batch(n, j) == slice(n, j, j + config.concurrency)

\* NextCursor stepping one item too far
NextCursor_skip(j) == j + config.concurrency + 1

\* NextCursor without the increment: the cursor stays where it is
NextCursor_stuck(j) == j

\* NextCursor taking a concurrency below 1 for 1
NextCursor_atLeastOne(j) ==
  j + (IF config.concurrency < 1 THEN 1 ELSE config.concurrency)

\* the cursor of the next loop iteration (src/index.js:208)
NextCursor(j) == j + config.concurrency

\* MoreBatches true after a last batch that is full
MoreBatches_inclusive(n, j) == j + config.concurrency <= n

\* the test before the delay between batches (src/index.js:213)
MoreBatches(n, j) == j + config.concurrency < n

\* LoopTest stopping one item short
LoopTest_short(n, j) == j < n - 1

\* the loop test (src/index.js:208)
LoopTest(n, j) == j < n

\* NothingToDo with the early return removed
NothingToDo_never(total) == FALSE

\* the test for an empty item list (src/index.js:197)
NothingToDo(total) == total = 0

Init ==
  /\ config \in [apiKey : BOOLEAN, concurrency : 1..MaxConcurrency]
  /\ dir \in Directories
  /\ pc = "constructed"
  /\ imageFiles = <<>>
  /\ i = 0
  /\ totalCount = 0
  /\ processedCount = 0
  /\ results = <<>>
  /\ errors = <<>>
  /\ task = <<>>
  /\ output = NoOutput
  /\ writes = <<>>
  /\ summaryPrinted = FALSE
  /\ exitCode = 0
  /\ fatal = "none"
  /\ dispatches = <<>>
  /\ attempts = <<>>
  /\ fails = <<>>
  /\ called = {}
  /\ batches = <<>>
  /\ delays = 0

(***************************************************************************)
(* A second set of directories, for the listing itself: few files, with    *)
(* extensions written in lower case, in upper case, not recognized, and    *)
(* absent (path.extname gives the empty string).                           *)
(***************************************************************************)
DirExtPool == {".jpg", ".JPG", ".txt", ""}

RECURSIVE DirListingsOfLen(_)
DirListingsOfLen(n) ==
  IF n = 0 THEN {<<>>}
  ELSE {Append(l, [stem |-> n, ext |-> e]) :
          l \in DirListingsOfLen(n - 1), e \in DirExtPool}

DirListings == UNION {DirListingsOfLen(n) : n \in 0..MaxDirFiles}

InitDir ==
  /\ config \in [apiKey : BOOLEAN, concurrency : 1..MaxConcurrency]
  /\ dir \in {[readable |-> TRUE, files |-> l] : l \in DirListings}
  /\ pc = "constructed"
  /\ imageFiles = <<>>
  /\ i = 0
  /\ totalCount = 0
  /\ processedCount = 0
  /\ results = <<>>
  /\ errors = <<>>
  /\ task = <<>>
  /\ output = NoOutput
  /\ writes = <<>>
  /\ summaryPrinted = FALSE
  /\ exitCode = 0
  /\ fatal = "none"
  /\ dispatches = <<>>
  /\ attempts = <<>>
  /\ fails = <<>>
  /\ called = {}
  /\ batches = <<>>
  /\ delays = 0

\* the processor as its constructor leaves it (src/index.js:47-54), before
\* process() is called
Constructed ==
  /\ pc = "constructed"
  /\ imageFiles = <<>>
  /\ i = 0
  /\ totalCount = 0
  /\ processedCount = 0
  /\ results = <<>>
  /\ errors = <<>>
  /\ task = <<>>
  /\ output = NoOutput
  /\ writes = <<>>
  /\ summaryPrinted = FALSE
  /\ exitCode = 0
  /\ fatal = "none"
  /\ dispatches = <<>>
  /\ attempts = <<>>
  /\ fails = <<>>
  /\ called = {}
  /\ batches = <<>>
  /\ delays = 0

\* the directories of at most MaxFairFiles files
FairDirectories ==
  {[readable |-> FALSE, files |-> <<>>]} \cup
  {[readable |-> TRUE, files |-> l] :
     l \in UNION {ListingsOfLen(n) : n \in 0..MaxFairFiles}}

InitFair ==
  /\ config \in [apiKey : BOOLEAN, concurrency : 1..MaxConcurrency]
  /\ dir \in FairDirectories
  /\ Constructed

\* main()'s catch block: print the fatal error and process.exit(1)
Fatal(message) ==
  /\ pc' = "exited"
  /\ exitCode' = 1
  /\ fatal' = message

\* Output counting every image as successful
Output_allSuccessful(total, res, errs) ==
  [metadata |-> [totalImages |-> total,
                 successfulCount |-> total,
                 errorCount |-> Len(errs)],
   results |-> res,
   errors |-> errs]

\* the object saveResults() builds and serializes (src/index.js:229-240)
Output(total, res, errs) ==
  [metadata |-> [totalImages |-> total,
                 successfulCount |-> Len(res),
                 errorCount |-> Len(errs)],
   results |-> res,
   errors |-> errs]

\* the state of a map callback that has just entered analyzeImage(path, 0):
\* it awaits the read of imageToBase64
Started == [st |-> "read", retryCount |-> 0, result |-> NoResult]

Idle == [st |-> "idle", retryCount |-> 0, result |-> NoResult]

\* The for statement of process() from the loop test at cursor j on
\* (src/index.js:208-219): either one more batch is handed to processBatch,
\* whose map enters analyzeImage for every item of the batch before it
\* suspends at Promise.all, or the loop is over and saveResults() calls
\* fs.writeFile.  files, tk, ds and at are the item list, the tasks and the
\* dispatch and attempt counts the step starts from.
LoopFrom(files, tk, ds, at, total, j) ==
  LET n == Len(files)
      b == Batch(n, j)
  IN  /\ i' = j
      /\ IF LoopTest(n, j)
         THEN /\ pc' = "processBatch"
              /\ task' = [k \in 1..n |-> IF k \in b THEN Started ELSE tk[k]]
              /\ dispatches' = [k \in 1..n |-> IF k \in b THEN ds[k] + 1 ELSE ds[k]]
              /\ attempts' = [k \in 1..n |-> IF k \in b THEN at[k] + 1 ELSE at[k]]
              /\ output' = output
              /\ batches' = Append(batches, b)
         ELSE /\ pc' = "writeFile"
              /\ output' = Output(total, results, errors)
              /\ batches' = batches
              /\ task' = tk
              /\ dispatches' = ds
              /\ attempts' = at

\* Process without the validation of the API key
Process_unchecked ==
  /\ pc = "constructed"
  /\ pc' = "readdir"
  /\ UNCHANGED <<schedule, config, dir, imageFiles, i, fields, task, output,
                 writes, summaryPrinted, history, exitCode, fatal>>

(***************************************************************************)
(* process(), from its call in main() to its first await                   *)
(* (src/index.js:184-194, 272-279).                                        *)
(***************************************************************************)
Process ==
  /\ pc = "constructed"
  /\ IF ~config.apiKey
     THEN Fatal("OPENAI_API_KEY is not set in environment variables")
     ELSE /\ pc' = "readdir"
          /\ UNCHANGED <<exitCode, fatal>>
  /\ UNCHANGED <<schedule, config, dir, imageFiles, i, fields, task, output, writes,
                 summaryPrinted, history>>

\* ReaddirDone taking a directory that cannot be listed for an empty one
ReaddirDone_swallow ==
  /\ pc = "readdir"
  /\ ~dir.readable
  /\ pc' = "exited"
  /\ UNCHANGED <<schedule, config, dir, imageFiles, i, fields, task, output,
                 writes, summaryPrinted, history, exitCode, fatal>>

(***************************************************************************)
(* fs.readdir completes: getImageFiles returns or throws, and process()    *)
(* runs on to its next await or to its return (src/index.js:136-148,       *)
(* 194-210).                                                               *)
(***************************************************************************)
ReaddirDone ==
  /\ pc = "readdir"
  /\ IF ~dir.readable
     THEN /\ Fatal("Failed to read images directory")
          /\ UNCHANGED <<imageFiles, i, totalCount, task, output, dispatches,
                         attempts, fails, batches>>
     ELSE LET files == getImageFiles(dir.files)
              n == Len(files)
              zero == [k \in 1..n |-> 0]
          IN  /\ imageFiles' = files
              /\ totalCount' = n
              /\ fails' = zero
              /\ IF NothingToDo(n)
                 THEN /\ pc' = "exited"
                      /\ UNCHANGED <<i, task, output, dispatches, attempts,
                                     batches>>
                 ELSE LoopFrom(files, [k \in 1..n |-> Idle], zero, zero, n, 0)
              /\ UNCHANGED <<exitCode, fatal>>
  /\ UNCHANGED <<config, dir, processedCount, results, errors, writes,
                 summaryPrinted, called, delays>>

(***************************************************************************)
(* analyzeImage for item k (src/index.js:80-131).                          *)
(***************************************************************************)
\* the error an attempt throws: its message tells the kind of failure and
\* which attempt of the item threw it
Error(kind, k) == [kind |-> kind, attempt |-> attempts[k]]

\* Caught rethrowing the error once the retries are used up
Caught_rethrow(t, imagePath, error) ==
  IF ShouldRetry(t.retryCount)
  THEN [t EXCEPT !.st = "retryDelay"]
  ELSE [t EXCEPT !.st = "rejected"]

\* the catch block (src/index.js:115-130): wait for the retry delay, or
\* return the Failure built from the error just caught
Caught(t, imagePath, error) ==
  IF ShouldRetry(t.retryCount)
  THEN [t EXCEPT !.st = "retryDelay"]
  ELSE [t EXCEPT !.st = "fulfilled", !.result = Failure(imagePath, error)]

Throw(k, error) ==
  /\ task' = [task EXCEPT ![k] = Caught(task[k], imageFiles[k], error)]
  /\ fails' = [fails EXCEPT ![k] = @ + 1]

\* fs.readFile returns: imageToBase64 returns and the remote call is issued
ReadFileOK(k) ==
  /\ pc # "exited"
  /\ task[k].st = "read"
  /\ task' = [task EXCEPT ![k].st = "call"]
  /\ called' = called \cup {k}
  /\ UNCHANGED <<schedule, config, dir, pc, imageFiles, i, fields, output, writes,
                 summaryPrinted, exitCode, fatal, dispatches, attempts, fails>>

\* ReadFileFail with the read outside the try block: a Failure at once
ReadFileFail_noretry(k) ==
  /\ pc # "exited"
  /\ task[k].st = "read"
  /\ task' = [task EXCEPT ![k].st = "fulfilled",
                          ![k].result = Failure(imageFiles[k], Error("read", k))]
  /\ fails' = [fails EXCEPT ![k] = @ + 1]
  /\ UNCHANGED <<schedule, config, dir, pc, imageFiles, i, fields, output,
                 writes, summaryPrinted, exitCode, fatal, dispatches, attempts,
                 called>>

\* fs.readFile throws
ReadFileFail(k) ==
  /\ pc # "exited"
  /\ task[k].st = "read"
  /\ Throw(k, Error("read", k))
  /\ UNCHANGED <<schedule, config, dir, pc, imageFiles, i, fields, output, writes,
                 summaryPrinted, exitCode, fatal, dispatches, attempts, called>>

\* the remote call returns a completion
CallOK(k) ==
  /\ pc # "exited"
  /\ task[k].st = "call"
  /\ task' = [task EXCEPT ![k].st = "fulfilled",
                          ![k].result = Success(imageFiles[k])]
  /\ UNCHANGED <<schedule, config, dir, pc, imageFiles, i, fields, output, writes,
                 summaryPrinted, exitCode, fatal, history>>

\* the remote call throws
CallFail(k) ==
  /\ pc # "exited"
  /\ task[k].st = "call"
  /\ Throw(k, Error("api", k))
  /\ UNCHANGED <<schedule, config, dir, pc, imageFiles, i, fields, output, writes,
                 summaryPrinted, exitCode, fatal, dispatches, attempts, called>>

\* the retry delay is over: analyzeImage(imagePath, retryCount + 1)
RetryTimer(k) ==
  /\ pc # "exited"
  /\ task[k].st = "retryDelay"
  /\ task' = [task EXCEPT ![k].st = "read", ![k].retryCount = @ + 1]
  /\ attempts' = [attempts EXCEPT ![k] = @ + 1]
  /\ UNCHANGED <<schedule, config, dir, pc, imageFiles, i, fields, output, writes,
                 summaryPrinted, exitCode, fatal, dispatches, fails, called>>

\* Settle with unshift for push: the Outcome goes to the front
Settle_unshift(k) ==
  /\ pc # "exited"
  /\ task[k].st = "fulfilled"
  /\ processedCount' = processedCount + 1
  /\ IF task[k].result.success
     THEN /\ results' = <<task[k].result>> \o results
          /\ errors' = errors
     ELSE /\ errors' = <<task[k].result>> \o errors
          /\ results' = results
  /\ task' = [task EXCEPT ![k].st = "settled"]
  /\ UNCHANGED <<schedule, config, dir, pc, imageFiles, i, totalCount, output,
                 writes, summaryPrinted, exitCode, fatal, history>>

\* Settle counting the successes only
Settle_uncounted(k) ==
  /\ pc # "exited"
  /\ task[k].st = "fulfilled"
  /\ IF task[k].result.success
     THEN /\ processedCount' = processedCount + 1
          /\ results' = Append(results, task[k].result)
          /\ errors' = errors
     ELSE /\ processedCount' = processedCount
          /\ errors' = Append(errors, task[k].result)
          /\ results' = results
  /\ task' = [task EXCEPT ![k].st = "settled"]
  /\ UNCHANGED <<schedule, config, dir, pc, imageFiles, i, totalCount, output,
                 writes, summaryPrinted, exitCode, fatal, history>>

\* Settle without the else: every Outcome goes to results, a Failure to
\* errors as well
Settle_both(k) ==
  /\ pc # "exited"
  /\ task[k].st = "fulfilled"
  /\ processedCount' = processedCount + 1
  /\ results' = Append(results, task[k].result)
  /\ errors' = IF task[k].result.success THEN errors
               ELSE Append(errors, task[k].result)
  /\ task' = [task EXCEPT ![k].st = "settled"]
  /\ UNCHANGED <<schedule, config, dir, pc, imageFiles, i, totalCount, output, writes,
                 summaryPrinted, exitCode, fatal, history>>

(***************************************************************************)
(* The map callback of processBatch after its await (src/index.js:162-175):*)
(* count the Outcome and append it to results or to errors.                *)
(***************************************************************************)
Settle(k) ==
  /\ pc # "exited"
  /\ task[k].st = "fulfilled"
  /\ processedCount' = processedCount + 1
  /\ IF task[k].result.success
     THEN /\ results' = Append(results, task[k].result)
          /\ errors' = errors
     ELSE /\ errors' = Append(errors, task[k].result)
          /\ results' = results
  /\ task' = [task EXCEPT ![k].st = "settled"]
  /\ UNCHANGED <<schedule, config, dir, pc, imageFiles, i, totalCount, output, writes,
                 summaryPrinted, exitCode, fatal, history>>

(***************************************************************************)
(* Promise.all of processBatch settles (src/index.js:178) and process()    *)
(* runs on from its await (src/index.js:210-219): Promise.all is fulfilled *)
(* when every callback of the batch has returned and rejected as soon as   *)
(* one has thrown.                                                         *)
(***************************************************************************)
BatchRejected == \E k \in Batch(Len(imageFiles), i) : task[k].st = "rejected"
\* BatchFulfilled as Promise.race would have it: one callback has returned
BatchFulfilled_race ==
  /\ Batch(Len(imageFiles), i) # {}
  /\ \E k \in Batch(Len(imageFiles), i) : task[k].st = "settled"

BatchFulfilled == \A k \in Batch(Len(imageFiles), i) : task[k].st = "settled"

BatchSettled ==
  /\ pc = "processBatch"
  /\ BatchRejected \/ BatchFulfilled
  /\ IF BatchRejected
     THEN /\ Fatal("analyzeImage")
          /\ UNCHANGED <<i, task, output, dispatches, attempts, schedule>>
     ELSE /\ IF MoreBatches(Len(imageFiles), i)
             THEN /\ pc' = "batchDelay"
                  /\ delays' = delays + 1
                  /\ UNCHANGED <<i, task, output, dispatches, attempts,
                                 batches>>
             ELSE /\ LoopFrom(imageFiles, task, dispatches, attempts,
                              totalCount, NextCursor(i))
                  /\ delays' = delays
          /\ UNCHANGED <<exitCode, fatal>>
  /\ UNCHANGED <<config, dir, imageFiles, fields, writes, summaryPrinted,
                 fails, called>>

\* the delay between batches is over (src/index.js:214, 208-210)
BatchDelayTimer ==
  /\ pc = "batchDelay"
  /\ LoopFrom(imageFiles, task, dispatches, attempts, totalCount, NextCursor(i))
  /\ UNCHANGED <<config, dir, imageFiles, fields, writes, summaryPrinted,
                 exitCode, fatal, fails, called, delays>>

(***************************************************************************)
(* fs.writeFile completes (src/index.js:242-248, 219-223, 275-279).        *)
(***************************************************************************)
WriteFileOK ==
  /\ pc = "writeFile"
  /\ writes' = Append(writes, output)
  /\ summaryPrinted' = TRUE
  /\ pc' = "exited"
  /\ UNCHANGED <<schedule, config, dir, imageFiles, i, fields, task, output, exitCode,
                 fatal, history>>

\* WriteFileFail with the error of the write caught and dropped
WriteFileFail_swallow ==
  /\ pc = "writeFile"
  /\ summaryPrinted' = TRUE
  /\ pc' = "exited"
  /\ UNCHANGED <<schedule, config, dir, imageFiles, i, fields, task, output,
                 writes, history, exitCode, fatal>>

\* fs.writeFile throws: saveResults and process() throw, main() catches
WriteFileFail ==
  /\ pc = "writeFile"
  /\ Fatal("writeFile")
  /\ UNCHANGED <<schedule, config, dir, imageFiles, i, fields, task, output, writes,
                 summaryPrinted, history>>

Next ==
  \/ Process
  \/ ReaddirDone
  \/ \E k \in Items : ReadFileOK(k)
  \/ \E k \in Items : ReadFileFail(k)
  \/ \E k \in Items : CallOK(k)
  \/ \E k \in Items : CallFail(k)
  \/ \E k \in Items : RetryTimer(k)
  \/ \E k \in Items : Settle(k)
  \/ BatchSettled
  \/ BatchDelayTimer
  \/ WriteFileOK
  \/ WriteFileFail

Spec == Init /\ [][Next]_vars

\* the same program over the directories of DirListings
SpecDir == InitDir /\ [][Next]_vars

(***************************************************************************)
(* A caller that uses the exported class (src/index.js:286) and calls      *)
(* process() again on the processor whose process() has returned.          *)
(***************************************************************************)
\* the directories of at most MaxRerunItems files, images all
RerunDirectories ==
  {[readable |-> TRUE, files |-> [k \in 1..n |-> [stem |-> k, ext |-> ".PNG"]]] :
     n \in 0..MaxRerunItems}

InitRerun ==
  /\ config \in [apiKey : {TRUE}, concurrency : 1..MaxConcurrency]
  /\ dir \in RerunDirectories
  /\ Constructed

\* ProcessAgain with the fields set again as the constructor sets them
ProcessAgain_reset ==
  /\ pc = "exited"
  /\ fatal = "none"
  /\ config.apiKey
  /\ dir' \in RerunDirectories
  /\ processedCount + Len(dir'.files) <= MaxRerunItems
  /\ pc' = "readdir"
  /\ totalCount' = 0
  /\ processedCount' = 0
  /\ results' = <<>>
  /\ errors' = <<>>
  /\ imageFiles' = <<>>
  /\ i' = 0
  /\ task' = <<>>
  /\ output' = NoOutput
  /\ dispatches' = <<>>
  /\ attempts' = <<>>
  /\ fails' = <<>>
  /\ called' = {}
  /\ batches' = <<>>
  /\ delays' = 0
  /\ UNCHANGED <<config, writes, summaryPrinted, exitCode, fatal>>

\* process() is called on a processor whose process() has returned, up to
\* its first await (src/index.js:184-194): the call has its own locals, and
\* the histories are those of the call; the fields are not assigned.  The
\* directory may have changed since the call before; the calls of a
\* processor have at most MaxRerunItems items together.
ProcessAgain ==
  /\ pc = "exited"
  /\ fatal = "none"
  /\ config.apiKey
  /\ dir' \in RerunDirectories
  /\ processedCount + Len(dir'.files) <= MaxRerunItems
  /\ pc' = "readdir"
  /\ imageFiles' = <<>>
  /\ i' = 0
  /\ task' = <<>>
  /\ output' = NoOutput
  /\ dispatches' = <<>>
  /\ attempts' = <<>>
  /\ fails' = <<>>
  /\ called' = {}
  /\ batches' = <<>>
  /\ delays' = 0
  /\ UNCHANGED <<config, fields, writes, summaryPrinted, exitCode, fatal>>

NextRerun ==
  \/ Next
  \/ ProcessAgain

SpecRerun == InitRerun /\ [][NextRerun]_vars

(***************************************************************************)
(* The concurrency of the configuration when nothing keeps it positive:    *)
(* CONFIG.concurrency from the environment (src/index.js:33), or the       *)
(* config object a caller of the exported class hands to the constructor   *)
(* (src/index.js:47-48).                                                   *)
(***************************************************************************)
defaultConcurrency == 5

\* the values of the CONCURRENCY environment variable: not set, or set to
\* the text of an integer
EnvValues ==
  {[set |-> FALSE, value |-> 0]} \cup
  {[set |-> TRUE, value |-> v] : v \in -MaxNegative..1}

\* parseInt(process.env.CONCURRENCY) || 5: parseInt of an unset variable is
\* NaN, and NaN and 0 are falsy
concurrencyFromEnv(env) ==
  IF ~env.set \/ env.value = 0 THEN defaultConcurrency ELSE env.value

\* the concurrency a caller puts into the config object
ProgrammaticConcurrencies == -MaxNegative..1

InitAnyConcurrency ==
  /\ config \in [apiKey : BOOLEAN,
                 concurrency : {concurrencyFromEnv(env) : env \in EnvValues}
                                 \cup ProgrammaticConcurrencies]
  /\ dir \in FairDirectories
  /\ Constructed

\* Next with the loop of process() cut off after MaxIterations iterations
NextCapped ==
  \/ Process
  \/ ReaddirDone
  \/ \E k \in Items : ReadFileOK(k)
  \/ \E k \in Items : ReadFileFail(k)
  \/ \E k \in Items : CallOK(k)
  \/ \E k \in Items : CallFail(k)
  \/ \E k \in Items : RetryTimer(k)
  \/ \E k \in Items : Settle(k)
  \/ BatchSettled
  \/ Len(batches) < MaxIterations /\ BatchDelayTimer
  \/ WriteFileOK
  \/ WriteFileFail

SpecAnyConcurrency == InitAnyConcurrency /\ [][NextCapped]_vars

(***************************************************************************)
(* The event loop: a callback that is ready to run is run, a timer that is *)
(* set fires (delay, src/index.js:153-155), and the environment answers    *)
(* every request: fs.readdir, fs.readFile and fs.writeFile complete, and   *)
(* the remote call returns a completion or throws.                         *)
(***************************************************************************)
EventLoop ==
  /\ WF_vars(Process)
  /\ WF_vars(ReaddirDone)
  /\ WF_vars(\E k \in Items : ReadFileOK(k) \/ ReadFileFail(k))
  /\ WF_vars(\E k \in Items : CallOK(k) \/ CallFail(k))
  /\ WF_vars(\E k \in Items : RetryTimer(k))
  /\ WF_vars(\E k \in Items : Settle(k))
  /\ WF_vars(BatchSettled)
  /\ WF_vars(BatchDelayTimer)
  /\ WF_vars(WriteFileOK \/ WriteFileFail)

\* the program with every request answered
SpecFair == InitFair /\ [][Next]_vars /\ EventLoop

(***************************************************************************)
(* Vocabulary of the properties.                                           *)
(***************************************************************************)
\* process() has returned without throwing
Completed == pc = "exited" /\ fatal = "none"

\* item k has produced its Outcome
HasOutcome(k) == task[k].st \in {"fulfilled", "settled"}

\* the items whose remote call is issued and has not returned
Outstanding == {k \in Items : task[k].st = "call"}

\* the window item k belongs to, counted from 0
Window(k) == (k - 1) \div config.concurrency

\* results followed by errors
Collected == results \o errors

\* how often a path occurs in a sequence of Outcomes
Occurrences(outcomes, p) ==
  Cardinality({q \in 1..Len(outcomes) : outcomes[q].path = p})

\* C1: when process() has returned, results and errors together hold
\* totalCount Outcomes and processedCount equals totalCount
C1_CountsAtCompletion ==
  Completed =>
    /\ Len(results) + Len(errors) = totalCount
    /\ processedCount = totalCount

C1_Witness ==
  /\ Completed
  /\ totalCount = 3
  /\ Len(results) >= 1
  /\ Len(errors) >= 1
  /\ \E k \in Items : task[k].result.success /\ attempts[k] > 1

\* C2: in every state at most config.concurrency remote calls are
\* outstanding
C2_BoundedOutstanding == Cardinality(Outstanding) <= config.concurrency

C2_Witness ==
  /\ config.concurrency = 2
  /\ Cardinality(Outstanding) = 2
  /\ \E k \in Outstanding : task[k].retryCount > 0
  /\ \E k \in Items : task[k].st = "idle"

\* C3: an item of a later window has no attempt started while an item of
\* an earlier window has not produced its Outcome
C3_WindowsDoNotOverlap ==
  \A a \in Items : \A b \in Items :
    (Window(a) < Window(b) /\ attempts[b] > 0) => HasOutcome(a)

C3_Witness ==
  \E a \in Items : \E b \in Items :
    /\ Window(a) < Window(b)
    /\ task[b].st = "retryDelay"
    /\ task[a].st = "settled"
    /\ ~task[a].result.success
    /\ attempts[a] = maxRetries + 1

\* C4: no item is handed to analyzeImage by processBatch more than once, no
\* path occurs twice in results and errors together, and when the loop is
\* over every item was handed over once and its path occurs exactly once
C4_SettlesExactlyOnce ==
  /\ \A k \in Items : dispatches[k] <= 1
  /\ \A q \in 1..Len(Collected) :
       /\ Occurrences(Collected, Collected[q].path) = 1
       /\ \E k \in Items : imageFiles[k] = Collected[q].path
  /\ (pc = "writeFile" \/ Completed) =>
       \A k \in Items :
         /\ dispatches[k] = 1
         /\ Occurrences(Collected, imageFiles[k]) = 1
         /\ Occurrences(results, imageFiles[k]) = 1
              <=> Occurrences(errors, imageFiles[k]) = 0

C4_Witness ==
  /\ Completed
  /\ Len(imageFiles) = 3
  /\ Len(results) = 2
  /\ Len(errors) = 1
  /\ config.concurrency = 2

\* C5: an item that has its Outcome after at most maxRetries failed attempts
\* has a Success, made by the attempt right after the last failed one, and
\* once an item has a Success it gets no further attempt
C5_SuccessAfterFailures ==
  \A k \in Items :
    (HasOutcome(k) /\ fails[k] <= maxRetries) =>
      /\ task[k].result = Success(imageFiles[k])
      /\ attempts[k] = fails[k] + 1

C5_NoAttemptAfterSuccess ==
  \A k \in Items :
    (HasOutcome(k) /\ task[k].result.success) =>
      /\ attempts'[k] = attempts[k]
      /\ fails'[k] = fails[k]
      /\ task'[k].result = task[k].result
      /\ HasOutcome(k)'

C5_RetryThenSuccess ==
  /\ []C5_SuccessAfterFailures
  /\ [][C5_NoAttemptAfterSuccess]_vars

C5_Witness ==
  \E k \in Items :
    /\ task[k].st = "settled"
    /\ task[k].result.success
    /\ fails[k] = 2
    /\ attempts[k] = 3
    /\ pc = "exited"

\* C6: no item gets more than maxRetries + 1 attempts; an item all of whose
\* maxRetries + 1 attempts failed has a Failure, a Failure is returned only
\* then, and its error is the one the last attempt threw
C6_FailureAfterAllAttempts ==
  \A k \in Items :
    /\ attempts[k] <= maxRetries + 1
    /\ fails[k] = maxRetries + 1 =>
         /\ HasOutcome(k)
         /\ ~task[k].result.success
    /\ (HasOutcome(k) /\ ~task[k].result.success) =>
         /\ attempts[k] = maxRetries + 1
         /\ fails[k] = maxRetries + 1
         /\ task[k].result.path = imageFiles[k]
         /\ task[k].result.error.attempt = maxRetries + 1

C6_Witness ==
  \E k \in Items :
    /\ task[k].st = "settled"
    /\ ~task[k].result.success
    /\ task[k].result.error = [kind |-> "api", attempt |-> maxRetries + 1]
    /\ k \in called
    /\ Len(errors) = 1

\* the items all of whose attempts failed
FailedItems == {k \in Items : attempts[k] > 0 /\ fails[k] = attempts[k]}

\* C7: analyzeImage never throws, the only fatal errors are the missing API
\* key, the unreadable directory and the failed write; whatever items fail,
\* the artifact is written only after every item was dispatched and settled
\* and its errors hold exactly the items all of whose attempts failed
C7_ItemFailuresContained ==
  /\ \A k \in Items : task[k].st # "rejected"
  /\ fatal # "analyzeImage"
  /\ (pc = "writeFile" \/ writes # <<>>) =>
       \A k \in Items : dispatches[k] = 1 /\ task[k].st = "settled"
  /\ \A w \in 1..Len(writes) :
       /\ {writes[w].errors[q].path : q \in 1..Len(writes[w].errors)}
            = {imageFiles[k] : k \in FailedItems}
       /\ Len(writes[w].errors) = Cardinality(FailedItems)
       /\ Len(writes[w].results) = Len(imageFiles) - Cardinality(FailedItems)

C7_Witness ==
  /\ Completed
  /\ Len(writes) = 1
  /\ Len(imageFiles) = 3
  /\ FailedItems = {1, 2}
  /\ Len(writes[1].results) = 1

\* every item was dispatched and has settled, and the cursor is past the list
AllSettled ==
  /\ i >= Len(imageFiles)
  /\ \A k \in Items : dispatches[k] >= 1 /\ task[k].st = "settled"

\* fs.writeFile is called, or has been called, only with every item settled
WriteOnlyAfterDone ==
  (pc = "writeFile" \/ writes # <<>> \/ fatal = "writeFile") => AllSettled

\* C8 as stated: every run that completes has written the artifact exactly
\* once, as one document, and only after every item has settled
C8_WrittenOncePerRun ==
  /\ Len(writes) <= 1
  /\ WriteOnlyAfterDone
  /\ Completed => Len(writes) = 1

\* C8 amended: the artifact is written at most once per run, as the one
\* document built from the fields as they are when every item has settled,
\* and only then; a run that completes has written it exactly once if it
\* found an item, and not at all if it found none
C8_WrittenOnceIfItems ==
  /\ Len(writes) <= 1
  /\ WriteOnlyAfterDone
  /\ pc = "writeFile" => writes = <<>>
  /\ \A w \in 1..Len(writes) : writes[w] = Output(totalCount, results, errors)
  /\ Completed => Len(writes) = (IF Len(imageFiles) = 0 THEN 0 ELSE 1)

C8_Witness ==
  /\ Completed
  /\ Len(writes) = 1
  /\ Len(imageFiles) = 3
  /\ config.concurrency = 1
  /\ Len(writes[1].errors) = 1

\* the number of batches processBatch has finished
BatchesProcessed ==
  IF pc = "batchDelay" THEN i \div config.concurrency + 1
  ELSE IF pc = "processBatch" THEN i \div config.concurrency
  ELSE IF AllSettled
       THEN (Len(imageFiles) + config.concurrency - 1) \div config.concurrency
       ELSE 0

\* C9 (README, Output Format): one batch file is written for every batch as
\* soon as the batch is processed, and a summary file besides at the end
C9_BatchFilesAndSummary ==
  /\ pc \in {"processBatch", "batchDelay"} => Len(writes) = BatchesProcessed
  /\ (Completed /\ Len(imageFiles) > 0) => Len(writes) = BatchesProcessed + 1

\* the images directory can be listed and holds no image file
NoImageFiles == dir.readable /\ \A f \in 1..Len(dir.files) : ~IsImageFile(dir.files[f])

\* C10: with the API key set and no image file in the directory the run only
\* lists the directory and returns: totalCount stays 0, no remote call is
\* issued, results and errors stay empty, nothing is written and the exit
\* code is 0
C10_ZeroFiles ==
  (config.apiKey /\ NoImageFiles) =>
    /\ pc \in {"constructed", "readdir", "exited"}
    /\ pc = "exited" => Completed /\ exitCode = 0
    /\ totalCount = 0
    /\ imageFiles = <<>>
    /\ called = {}
    /\ processedCount = 0
    /\ results = <<>>
    /\ errors = <<>>
    /\ writes = <<>>
    /\ ~summaryPrinted

C10_Witness ==
  /\ config.apiKey
  /\ NoImageFiles
  /\ Len(dir.files) >= 2
  /\ pc = "exited"
  /\ exitCode = 0

\* the fields of the processor are as the constructor left them
FieldsUntouched ==
  /\ totalCount = 0
  /\ processedCount = 0
  /\ results = <<>>
  /\ errors = <<>>

\* no item was handed to processBatch and no remote call was issued
NothingDispatched ==
  /\ batches = <<>>
  /\ \A k \in Items : dispatches[k] = 0 /\ attempts[k] = 0
  /\ called = {}

\* C11: without an API key the run neither lists the directory nor
\* dispatches an item nor issues a remote call; no field changes, nothing
\* is written, and when the run has ended it has ended with a fatal error
\* and exit code 1
C11_MissingApiKey ==
  ~config.apiKey =>
    /\ pc \in {"constructed", "exited"}
    /\ pc = "exited" => (exitCode = 1 /\ fatal # "none")
    /\ imageFiles = <<>>
    /\ FieldsUntouched
    /\ NothingDispatched
    /\ writes = <<>>
    /\ ~summaryPrinted

C11_Witness ==
  /\ ~config.apiKey
  /\ dir.readable
  /\ \E f \in 1..Len(dir.files) : IsImageFile(dir.files[f])
  /\ pc = "exited"
  /\ exitCode = 1

\* C12: with the API key set and a directory that cannot be listed the run
\* ends with the fatal error of getImageFiles and exit code 1; no item is
\* dispatched, no remote call is issued, no field changes and nothing is
\* written
C12_DirectoryUnreadable ==
  (config.apiKey /\ ~dir.readable) =>
    /\ pc \in {"constructed", "readdir", "exited"}
    /\ pc = "exited" =>
         (exitCode = 1 /\ fatal = "Failed to read images directory")
    /\ pc # "exited" => (exitCode = 0 /\ fatal = "none")
    /\ imageFiles = <<>>
    /\ FieldsUntouched
    /\ NothingDispatched
    /\ writes = <<>>
    /\ ~summaryPrinted

C12_Witness ==
  /\ config.apiKey
  /\ ~dir.readable
  /\ pc = "exited"
  /\ fatal = "Failed to read images directory"

\* the run has ended after the loop without a written artifact
EndedUnwritten ==
  /\ pc = "exited"
  /\ Len(imageFiles) > 0
  /\ \A k \in Items : task[k].st = "settled"
  /\ writes = <<>>

\* C13: a run that ends with its items settled and the artifact not written
\* ends with the fatal error of the write and exit code 1, the summary not
\* printed; the error of the write is raised only when every item has
\* settled and been counted, and after it nothing is written
C13_PersistFailure ==
  /\ EndedUnwritten =>
       (exitCode = 1 /\ fatal = "writeFile" /\ ~summaryPrinted)
  /\ fatal = "writeFile" =>
       /\ EndedUnwritten
       /\ i >= Len(imageFiles)
       /\ processedCount = totalCount
       /\ Len(results) + Len(errors) = totalCount
       /\ exitCode = 1
       /\ ~summaryPrinted

C13_NoSecondWrite ==
  fatal = "writeFile" => (pc' = "exited" /\ writes' = <<>> /\ ~summaryPrinted')

C13_PersistFailureIsFatal ==
  /\ []C13_PersistFailure
  /\ [][C13_NoSecondWrite]_vars

C13_Witness ==
  /\ fatal = "writeFile"
  /\ exitCode = 1
  /\ Len(results) = 2
  /\ Len(errors) = 1

\* the counts of a document agree with its collections and with totalCount
CountsAgree(d) ==
  /\ d.metadata.successfulCount = Len(d.results)
  /\ d.metadata.errorCount = Len(d.errors)
  /\ d.metadata.totalImages = totalCount
  /\ d.metadata.totalImages = Len(d.results) + Len(d.errors)

\* C14: in the document handed to fs.writeFile and in every document
\* written, successfulCount is the length of results, errorCount the length
\* of errors and totalImages is totalCount and the sum of the two lengths
C14_MetadataMatchesCollections ==
  /\ pc = "writeFile" => CountsAgree(output)
  /\ \A w \in 1..Len(writes) : CountsAgree(writes[w])

C14_Witness ==
  /\ Len(writes) = 1
  /\ writes[1].metadata.totalImages = 3
  /\ writes[1].metadata.successfulCount = 1
  /\ writes[1].metadata.errorCount = 2

\* the number of windows of n items at k a window
Ceil(n, k) == (n + k - 1) \div k

\* the loop of process() is over
LoopOver ==
  \/ pc = "writeFile"
  \/ pc = "exited" /\ fatal \in {"none", "writeFile"} /\ Len(imageFiles) > 0

\* the items of window w (counted from 1) of n items at k a window
WindowItems(n, k, w) == {x \in 1..n : (w - 1) * k < x /\ x <= w * k}

\* C15: with at least one item the batches handed to processBatch are the
\* consecutive windows of the list, each of concurrency items but a last
\* one that may be smaller; a delay follows every window but the last; when
\* the loop is over there were Ceil(N / K) windows and one delay fewer, and
\* if every item succeeded the document counts N images, N successes and no
\* error
C15_WindowsAndDelays ==
  LET n == Len(imageFiles)
      k == config.concurrency
      c == Ceil(n, k)
  IN  n >= 1 =>
        /\ Len(batches) \in 1..c
        /\ \A w \in 1..Len(batches) :
             /\ batches[w] = WindowItems(n, k, w)
             /\ Cardinality(batches[w]) = (IF w < c THEN k ELSE n - k * (c - 1))
        /\ delays = (IF pc = "batchDelay" THEN Len(batches)
                                          ELSE Len(batches) - 1)
        /\ LoopOver =>
             /\ Len(batches) = c
             /\ delays = c - 1
             /\ Len(errors) = 0 =>
                  /\ output.metadata = [totalImages |-> n,
                                        successfulCount |-> n,
                                        errorCount |-> 0]
                  /\ Len(output.results) = n

C15_Witness ==
  /\ Completed
  /\ Len(imageFiles) = 3
  /\ config.concurrency = 2
  /\ batches = <<{1, 2}, {3}>>
  /\ delays = 1
  /\ writes[1].metadata =
       [totalImages |-> 3, successfulCount |-> 3, errorCount |-> 0]

\* the extensions that are in the recognized set when case is ignored,
\* spelled out for the all-lower-case and all-upper-case writings
Recognized(ext) ==
  ext \in {".jpg", ".jpeg", ".png", ".gif", ".webp",
           ".JPG", ".JPEG", ".PNG", ".GIF", ".WEBP"}

\* getImageFiles has returned
Listed == config.apiKey /\ dir.readable /\ pc \notin {"constructed", "readdir"}

\* C16: the item list holds, for every directory entry with a recognized
\* extension in whatever case, exactly one path, made of the directory and
\* that entry; it holds nothing else, and its paths are in the order of
\* the directory listing
C16_ListingFiltered ==
  Listed =>
    /\ totalCount = Len(imageFiles)
    /\ \A k \in Items :
         /\ imageFiles[k].dir = imagesDir
         /\ basename(imageFiles[k]) = dir.files[imageFiles[k].base.stem]
         /\ Recognized(imageFiles[k].base.ext)
    /\ \A f \in 1..Len(dir.files) :
         Cardinality({k \in Items : imageFiles[k].base = dir.files[f]})
           = (IF Recognized(dir.files[f].ext) THEN 1 ELSE 0)
    /\ \A k1 \in Items : \A k2 \in Items :
         k1 < k2 => imageFiles[k1].base.stem < imageFiles[k2].base.stem

C16_Witness ==
  /\ Listed
  /\ Len(dir.files) = 2
  /\ dir.files[1].ext = ""
  /\ dir.files[2].ext = ".JPG"
  /\ imageFiles = <<[dir |-> "./images", base |-> [stem |-> 2, ext |-> ".JPG"]]>>

\* the items whose callback has counted and stored their Outcome
SettledItems == {k \in Items : task[k].st = "settled"}

\* the items that settle in the step
NewlySettled ==
  {k \in 1..Len(task') :
     /\ task'[k].st = "settled"
     /\ (k > Len(task) \/ task[k].st # "settled")}

\* C17: processedCount never exceeds totalCount and is the number of
\* settled items; a step in which an item settles raises it by exactly 1,
\* every other step leaves it as it is, and no step settles two items
C17_CountedItems ==
  /\ processedCount <= totalCount
  /\ processedCount = Cardinality(SettledItems)

C17_CountStep ==
  /\ Cardinality(NewlySettled) <= 1
  /\ processedCount' = processedCount + Cardinality(NewlySettled)

C17_ProcessedCount ==
  /\ []C17_CountedItems
  /\ [][C17_CountStep]_vars

C17_Witness ==
  /\ pc = "processBatch"
  /\ totalCount = 3
  /\ processedCount = 2
  /\ Len(errors) = 1
  /\ \E k \in Items : task[k].st = "fulfilled"

\* C18: a read that throws counts as a failed attempt and issues no remote
\* call; it is followed by the retry delay while retries are left and by
\* the Failure carrying the error of that read otherwise, as a failed
\* remote call is; an item that has its Outcome with no remote call ever
\* issued has a Failure after maxRetries + 1 attempts, all of them failed
C18_ReadFailureStep ==
  \A k \in Items :
    (task[k].st = "read" /\ task'[k].st \notin {"read", "call"}) =>
      /\ called' = called
      /\ fails'[k] = fails[k] + 1
      /\ attempts'[k] = attempts[k]
      /\ task'[k].retryCount = task[k].retryCount
      /\ IF task[k].retryCount < maxRetries
         THEN task'[k].st = "retryDelay"
         ELSE /\ task'[k].st = "fulfilled"
              /\ task'[k].result =
                   Failure(imageFiles[k],
                           [kind |-> "read", attempt |-> maxRetries + 1])

C18_NeverCalled ==
  \A k \in Items :
    /\ (HasOutcome(k) /\ k \notin called) =>
         /\ ~task[k].result.success
         /\ task[k].result.error.kind = "read"
         /\ attempts[k] = maxRetries + 1
         /\ fails[k] = maxRetries + 1
    /\ (task[k].st = "retryDelay") =>
         (fails[k] = task[k].retryCount + 1 /\ attempts[k] = fails[k])

C18_ReadFailureRetried ==
  /\ []C18_NeverCalled
  /\ [][C18_ReadFailureStep]_vars

C18_Witness ==
  \E k \in Items :
    /\ task[k].st = "settled"
    /\ k \notin called
    /\ attempts[k] = maxRetries + 1
    /\ errors = <<Failure(imageFiles[k],
                          [kind |-> "read", attempt |-> maxRetries + 1])>>

\* nothing of the run after the current batch has happened
RunStalled ==
  /\ pc = "processBatch"
  /\ output = NoOutput
  /\ writes = <<>>
  /\ ~summaryPrinted
  /\ exitCode = 0
  /\ fatal = "none"

\* C19: while a remote call is outstanding the run waits in processBatch
\* for the batch of that call: no later item is dispatched, the loop is
\* not over, nothing is handed to fs.writeFile or written; and a step that
\* leaves the call outstanding leaves the run there, whatever other items
\* of the batch settle in it
C19_OutstandingCallHolds ==
  \A k \in Outstanding :
    /\ RunStalled
    /\ k \in Batch(Len(imageFiles), i)
    /\ k \in batches[Len(batches)]
    /\ \A b \in Items :
         Window(b) > Window(k) => (dispatches[b] = 0 /\ task[b] = Idle)

C19_StallStep ==
  (\E k \in Outstanding : task'[k].st = "call") =>
    /\ pc' = "processBatch"
    /\ i' = i
    /\ batches' = batches
    /\ dispatches' = dispatches
    /\ writes' = <<>>
    /\ output' = NoOutput

C19_HungCallStallsWindow ==
  /\ []C19_OutstandingCallHolds
  /\ [][C19_StallStep]_vars

C19_Witness ==
  /\ config.concurrency = 2
  /\ Len(imageFiles) = 3
  /\ task[1].st = "call"
  /\ task[2].st = "settled"
  /\ processedCount = 1
  /\ task[3] = Idle
  /\ ~ENABLED BatchSettled

\* the item an Outcome belongs to
ItemOf(outcome) == CHOOSE k \in Items : imageFiles[k] = outcome.path

\* the Outcomes of a collection are in the order of their windows
WindowOrdered(outcomes) ==
  \A p \in 1..Len(outcomes) : \A q \in 1..Len(outcomes) :
    p < q => Window(ItemOf(outcomes[p])) <= Window(ItemOf(outcomes[q]))

\* a collection grows at its end only, by the Outcome settling in the step
GrowsAtEnd(before, after) ==
  \/ after = before
  \/ /\ Len(after) = Len(before) + 1
     /\ SubSeq(after, 1, Len(before)) = before
     /\ \E k \in NewlySettled : after[Len(after)] = task[k].result

\* C20: in results and in errors an Outcome of an earlier window precedes
\* every Outcome of a later window, and each collection is in the order in
\* which its Outcomes settled; the order within a window is free (the
\* witness has the second item of a window before the first)
C20_OrderedWithinCollections ==
  /\ WindowOrdered(results)
  /\ WindowOrdered(errors)

C20_SettlementOrderStep ==
  /\ GrowsAtEnd(results, results')
  /\ GrowsAtEnd(errors, errors')

C20_OrderedByWindow ==
  /\ []C20_OrderedWithinCollections
  /\ [][C20_SettlementOrderStep]_vars

C20_Witness ==
  /\ config.concurrency = 2
  /\ Len(results) = 3
  /\ ItemOf(results[1]) = 2
  /\ ItemOf(results[2]) = 1
  /\ ItemOf(results[3]) = 3

\* C22: in every reachable state, at completion and at every suspension
\* point before it, processedCount is the number of Outcomes in results
\* and errors together: a step that counts an Outcome appends that one
\* Outcome in the same step, and nothing is appended uncounted
C22_CounterMatchesCollections ==
  processedCount = Len(results) + Len(errors)

C22_CountedAndAppendedTogether ==
  /\ processedCount' \in {processedCount, processedCount + 1}
  /\ Len(results') + Len(errors') - (Len(results) + Len(errors))
       = processedCount' - processedCount

C22_CounterAndAppendAtomic ==
  /\ []C22_CounterMatchesCollections
  /\ [][C22_CountedAndAppendedTogether]_vars

\* one Outcome of a window is counted and appended while the remote call of
\* another item of the same window has not returned
C22_Witness ==
  /\ pc = "processBatch"
  /\ processedCount = 1
  /\ Len(errors) = 1
  /\ \E k \in Batch(Len(imageFiles), i) : task[k].st = "call"

\* the scheduling loop of process() is running
Scheduling == pc \in {"processBatch", "batchDelay"}

\* C21: with concurrency >= 1 and every read, remote call, timer and write
\* answered, every run ends, and a run that has entered the scheduling loop
\* gets to the end of the list and calls fs.writeFile: no item is attempted
\* more than maxRetries + 1 times, and every new window and the end of the
\* loop move the cursor forward by exactly concurrency
C21_AttemptsBounded == \A k \in Items : attempts[k] <= maxRetries + 1

C21_CursorAdvances ==
  /\ i' # i => i' = i + config.concurrency /\ config.concurrency >= 1
  /\ (Scheduling /\ (batches' # batches \/ pc' = "writeFile")) =>
       i' = i + config.concurrency
  /\ pc' = "writeFile" => i' >= Len(imageFiles)

RECURSIVE ItemsOfRuns(_)
ItemsOfRuns(w) ==
  IF w = 0 THEN 0 ELSE ItemsOfRuns(w - 1) + writes[w].metadata.totalImages

\* sequence s is the beginning of sequence t
IsPrefix(s, t) == Len(s) <= Len(t) /\ SubSeq(t, 1, Len(s)) = s

\* C23: process() called again on the same processor does not assign
\* processedCount, results and errors: they go on from the values of the
\* calls before, so when a call has returned processedCount is the number
\* of items of all the calls while totalCount is that of the last call
\* alone, and every artifact holds the Outcomes of the artifact before it
\* followed by those of its own run
C23_FieldsCarriedOver ==
  /\ \A w \in 1..Len(writes) :
       Len(writes[w].results) + Len(writes[w].errors) = ItemsOfRuns(w)
  /\ \A w \in 2..Len(writes) :
       /\ IsPrefix(writes[w - 1].results, writes[w].results)
       /\ IsPrefix(writes[w - 1].errors, writes[w].errors)
  /\ Completed =>
       /\ processedCount = ItemsOfRuns(Len(writes))
       /\ totalCount > 0 => totalCount = writes[Len(writes)].metadata.totalImages

C23_CallAssignsNoField ==
  (pc = "exited" /\ pc' = "readdir") => UNCHANGED <<processedCount, results, errors>>

C23_NoResetBetweenRuns ==
  /\ []C23_FieldsCarriedOver
  /\ [][C23_CallAssignsNoField]_vars

\* a run over one item and then a run over two: three Outcomes counted and
\* written, totalCount 2
C23_Witness ==
  /\ Completed
  /\ Len(writes) = 2
  /\ writes[1].metadata.totalImages = 1
  /\ totalCount = 2
  /\ processedCount = 3
  /\ Len(writes[2].results) + Len(writes[2].errors) = 3
  /\ Len(writes[1].errors) = 1
  /\ writes[2].errors[1] = writes[1].errors[1]

\* the run has listed at least one image and its concurrency is not positive
NonPositiveRun == config.concurrency <= 0 /\ Len(imageFiles) >= 1

\* C24: with a concurrency of 0 or less (0 from a caller's config only, as
\* CONCURRENCY=0 gives the default 5; a negative one from either) and at
\* least one item the cursor never gets past 0, so the loop test never
\* fails: the run stays in the loop, fs.writeFile is never called and nothing
\* is written.  With 0 every batch is empty; with a negative concurrency the
\* first batch is the list without its last -concurrency items, which is
\* more than concurrency items, every later batch is empty, and the cursor
\* moves down by -concurrency at every iteration
C24_EnvNeverZero ==
  /\ \A env \in EnvValues : concurrencyFromEnv(env) # 0
  /\ \E env \in EnvValues : concurrencyFromEnv(env) < 0
  /\ \E c \in ProgrammaticConcurrencies : c = 0
  /\ \E c \in ProgrammaticConcurrencies : c < 0

C24_StaysInLoop ==
  NonPositiveRun =>
    LET n == Len(imageFiles)
        c == config.concurrency
    IN  /\ i <= 0
        /\ i < n
        /\ i = c * (Len(batches) - 1)
        /\ pc \in {"processBatch", "batchDelay"}
        /\ output = NoOutput
        /\ writes = <<>>
        /\ ~summaryPrinted
        /\ exitCode = 0
        /\ batches[1] = (IF c = 0 THEN {} ELSE 1..(n + c))
        /\ c < 0 => Cardinality(batches[1]) > c
        /\ \A w \in 2..Len(batches) : batches[w] = {}
        /\ \A k \in Items : k \notin batches[1] => task[k].st = "idle"

C24_CursorNeverAdvances == NonPositiveRun => i' <= i

C24_NonPositiveConcurrency ==
  /\ []C24_EnvNeverZero
  /\ []C24_StaysInLoop
  /\ [][C24_CursorNeverAdvances]_vars

\* concurrency -1 and two items: the first batch is item 1 alone, it has
\* settled, the loop is in its third iteration with the cursor at -2, and
\* item 2 has not been dispatched
C24_Witness ==
  /\ config.concurrency = -1
  /\ Len(imageFiles) = 2
  /\ batches = <<{1}, {}, {}>>
  /\ i = -2
  /\ pc = "processBatch"
  /\ task[1].st = "settled"
  /\ task[2].st = "idle"
  /\ delays = 2

====
